---- MODULE Spec2Model ----
(***************************************************************************)
(* Model of the tabular report formatter of the A-share MCP server         *)
(* (src/src/formatting/markdown_formatter.py): format_df_to_markdown and   *)
(* _calculate_dynamic_max_rows, applied to bounded sets of datasets and    *)
(* display arguments.                                                      *)
(*                                                                         *)
(* A dataset (pandas DataFrame) is a record                                *)
(*   columns   : the sequence of column labels, left to right; labels are  *)
(*               naturals and the label DATE stands for 'date';            *)
(*   nrows     : the number of rows; a row is named by its position;       *)
(*   date_kind : what the column labelled 'date' holds ("none" when there  *)
(*               is no such column);                                       *)
(*   date_vals : for date-valued columns, the day number of each row.      *)
(* A dataset is a sequence of columns that share one row count, so a       *)
(* dataset without columns has no rows.                                    *)
(*                                                                         *)
(* Text is a sequence of tokens: literal pieces of the f-strings, the      *)
(* formatted notes, and the rendered table (the positions of the columns   *)
(* and of the rows it shows, in order).                                    *)
(***************************************************************************)
EXTENDS Integers, Sequences, FiniteSets, TLC

VARIABLES
    pc, args, budget, result,   \* one call of format_df_to_markdown
    globals,                    \* the module attributes of markdown_formatter
    log,                        \* the calls completed so far, with their results
    procs,                      \* invocations running side by side
    reqs,                       \* the requests mcp_endpoint is handling
    invoked,                    \* the tool invocations made through mcp_app.call_tool
    sessions,                   \* the module attribute sessions of http_server_enhanced
    served,                     \* the requests one client was answered so far
    tool                        \* one invocation of a registered tool function

vars == <<pc, args, budget, result, globals, log, procs, reqs, invoked, sessions, served, tool>>

\* ------------------------------------------------------------------ bounds
MaxNameLen == 3
MaxSmallRows == 2
MaxRowsArg == 3
MaxColsArg == 3
MaxCalls == 3
MaxRequests == 3

\* ------------------------------------------------------- program constants
MAX_MARKDOWN_ROWS == 250
MAX_MARKDOWN_COLS == 12

\* the column label 'date'
DATE == 0

\* --------------------------------------------------------- generic helpers
Iota(n) == [i \in 1..n |-> i]

Range(s) == {s[i] : i \in DOMAIN s}

MaxOf(a, b) == IF a >= b THEN a ELSE b

MinOf(a, b) == IF a <= b THEN a ELSE b

SeqMax(s) == CHOOSE x \in Range(s) : \A y \in Range(s) : y <= x

SeqMin(s) == CHOOSE x \in Range(s) : \A y \in Range(s) : x <= y

\* Python int(n / d) for d > 0: the quotient truncated towards zero
IntTrunc(n, d) == IF n >= 0 THEN n \div d ELSE -((-n) \div d)

\* seq[:k] and seq[-k:] of a Python sequence, for k >= 1
Prefix(s, k) == SubSeq(s, 1, MinOf(k, Len(s)))

Suffix(s, k) == SubSeq(s, MaxOf(1, Len(s) - k + 1), Len(s))

\* ------------------------------------------------------------------ tokens
Tok(t, n, m, cols, rows) == [t |-> t, n |-> n, m |-> m, cols |-> cols, rows |-> rows]

Lit(s) == Tok(s, 0, 0, <<>>, <<>>)

NO_DATA == <<Lit("(No data available to display)")>>

RENDER_ERROR == <<Lit("Error: Could not format data into Markdown table.")>>

RowNote(n, m) == Tok("rows truncated to {n} (from {m})", n, m, <<>>, <<>>)

ColNote(n, m) == Tok("columns truncated to {n} (from {m})", n, m, <<>>, <<>>)

NotePrefix == Lit("Note: Data truncated (")

NoteSuffix == Lit(").\n\n")

NoteSep == Lit("; ")

\* df_display.to_markdown(index=False): header and one line per row
Table(cols, rows) == Tok("table", 0, 0, cols, rows)

\* mutant of Join: the separator is left out
JoinNoSep(sep, notes) == notes

\* sep.join(notes)
RECURSIVE Join(_, _)
Join(sep, notes) ==
    IF Len(notes) = 0 THEN <<>>
    ELSE IF Len(notes) = 1 THEN <<notes[1]>>
    ELSE <<notes[1], sep>> \o Join(sep, Tail(notes))

\* --------------------------------------------------------- date arguments
\* A date argument is None, or a string: "" , a string of the shape
\* digits-digits-digits (its numbers are y, m, d), or any other text.
DateArg(kind, y, m, d) == [kind |-> kind, y |-> y, m |-> m, d |-> d]

NoDate == DateArg("none", 0, 0, 0)

EmptyStr == DateArg("empty", 0, 0, 0)

BadText == DateArg("text", 0, 0, 0)

Ymd(y, m, d) == DateArg("ymd", y, m, d)

\* truth value of a Python str-or-None
Truthy(a) == a.kind \in {"text", "ymd"}

IsLeap(y) == (y % 4 = 0) /\ ((y % 100 # 0) \/ (y % 400 = 0))

DaysInMonth(y, m) ==
    IF m = 2 THEN (IF IsLeap(y) THEN 29 ELSE 28)
    ELSE IF m \in {4, 6, 9, 11} THEN 30 ELSE 31

RECURSIVE DaysBeforeMonth(_, _)
DaysBeforeMonth(y, m) ==
    IF m <= 1 THEN 0 ELSE DaysBeforeMonth(y, m - 1) + DaysInMonth(y, m - 1)

\* datetime.toordinal
Ordinal(y, m, d) ==
    365 * (y - 1) + ((y - 1) \div 4) - ((y - 1) \div 100) + ((y - 1) \div 400)
    + DaysBeforeMonth(y, m) + d

\* datetime.strptime(a, "%Y-%m-%d") succeeds
Parses(a) ==
    /\ a.kind = "ymd"
    /\ a.y \in 1..9999
    /\ a.m \in 1..12
    /\ a.d \in 1..DaysInMonth(a.y, a.m)

\* ---------------------------------------------------------------- datasets
DataFrame(columns, nrows, date_kind, date_vals) ==
    [columns |-> columns, nrows |-> nrows, date_kind |-> date_kind, date_vals |-> date_vals]

\* mutant of Empty: only the column axis is looked at
EmptyColumnsOnly(df) == Len(df.columns) = 0

\* df.empty: some axis has length 0
Empty(df) == df.nrows = 0 \/ Len(df.columns) = 0

\* 'date' in df.columns
HasDateColumn(df) == DATE \in Range(df.columns)

\* pd.api.types.is_datetime64_any_dtype(df['date'])
IsDatetimeDtype(df) == df.date_kind = "datetime"

\* isinstance(df['date'].iloc[0], str)
FirstDateIsStr(df) == df.date_kind \in {"str", "badstr"}

\* pd.to_datetime(df['date']) raises on text that is no date
ToDatetimeRaises(df) == df.date_kind = "badstr"

\* an optional integer argument: None, or a value
Opt(given, v) == [given |-> given, v |-> v]

None == Opt(FALSE, 0)

Some(v) == Opt(TRUE, v)

\* ----------------------------------------------- _calculate_dynamic_max_rows
Returned(v) == [raised |-> FALSE, exc |-> "", v |-> v]

Raised(exc) == [raised |-> TRUE, exc |-> exc, v |-> 0]

\* mutant of EstimatedTradingDays: the + 1 is left out
EstimatedNoPlusOne(date_range) == IntTrunc(date_range * 250, 365)

\* int(date_range * 250 / 365) + 1
EstimatedTradingDays(date_range) == IntTrunc(date_range * 250, 365) + 1

\* mutant of ClampRows: no floor of 50
ClampRowsNoFloor(estimated_trading_days) ==
    MinOf(globals.MAX_MARKDOWN_ROWS, estimated_trading_days)

\* max(50, min(MAX_MARKDOWN_ROWS, estimated_trading_days))
ClampRows(estimated_trading_days) ==
    MaxOf(50, MinOf(globals.MAX_MARKDOWN_ROWS, estimated_trading_days))

\* (date_series.max() - date_series.min()).days
DateColumnRange(df) == SeqMax(df.date_vals) - SeqMin(df.date_vals)

\* (end - start).days of the two parsed arguments
ArgDateRange(start_date, end_date) ==
    Ordinal(end_date.y, end_date.m, end_date.d)
    - Ordinal(start_date.y, start_date.m, start_date.d)

\* The condition of the first branch is
\*   ('date' in df.columns and is_datetime64_any_dtype(df['date']))
\*       or isinstance(df['date'].iloc[0], str)
\* so without a 'date' column the right operand is evaluated and df['date']
\* raises KeyError, outside any try block.
DateBranchLookupRaises(df) == ~HasDateColumn(df)

DateBranchTaken(df) ==
    (HasDateColumn(df) /\ IsDatetimeDtype(df)) \/ FirstDateIsStr(df)

\* mutant of CalculateDynamicMaxRows: a date column that fails to parse
\* falls through to the start_date/end_date rule
CalculateFallingThrough(df, start_date, end_date) ==
    IF DateBranchLookupRaises(df) THEN Raised("KeyError")
    ELSE IF DateBranchTaken(df) /\ ~(FirstDateIsStr(df) /\ ToDatetimeRaises(df))
    THEN Returned(ClampRows(EstimatedTradingDays(DateColumnRange(df))))
    ELSE IF Truthy(start_date) /\ Truthy(end_date) THEN
        IF Parses(start_date) /\ Parses(end_date)
        THEN Returned(ClampRows(EstimatedTradingDays(ArgDateRange(start_date, end_date))))
        ELSE Returned(globals.MAX_MARKDOWN_ROWS)
    ELSE Returned(globals.MAX_MARKDOWN_ROWS)

CalculateDynamicMaxRows(df, start_date, end_date) ==
    IF DateBranchLookupRaises(df) THEN Raised("KeyError")
    ELSE IF DateBranchTaken(df) THEN
        IF FirstDateIsStr(df) /\ ToDatetimeRaises(df)
        THEN Returned(globals.MAX_MARKDOWN_ROWS)
        ELSE Returned(ClampRows(EstimatedTradingDays(DateColumnRange(df))))
    ELSE IF Truthy(start_date) /\ Truthy(end_date) THEN
        IF Parses(start_date) /\ Parses(end_date)
        THEN Returned(ClampRows(EstimatedTradingDays(ArgDateRange(start_date, end_date))))
        ELSE Returned(globals.MAX_MARKDOWN_ROWS)
    ELSE Returned(globals.MAX_MARKDOWN_ROWS)

\* ----------------------------------------------------- format_df_to_markdown
\* df.head(n), df.tail(n) on the sequence of row positions
DfHead(rows, n) == SubSeq(rows, 1, MinOf(n, Len(rows)))

DfTail(rows, n) ==
    IF n = 0 THEN <<>> ELSE SubSeq(rows, MaxOf(1, Len(rows) - n + 1), Len(rows))

\* mutant of RowsExceed: the comparison is >=
RowsReach(original_rows, max_rows) == original_rows >= max_rows

\* original_rows > max_rows
RowsExceed(original_rows, max_rows) == original_rows > max_rows

\* mutant of RowsToShow: the tail half is forgotten
RowsHeadOnly(original_rows, max_rows) ==
    IF original_rows > max_rows
    THEN DfHead(Iota(original_rows), max_rows)
    ELSE Iota(original_rows)

\* pd.concat([df.head(max_rows // 2), df.tail(max_rows - max_rows // 2)])
RowsToShow(original_rows, max_rows) ==
    IF RowsExceed(original_rows, max_rows)
    THEN DfHead(Iota(original_rows), max_rows \div 2)
         \o DfTail(Iota(original_rows), max_rows - max_rows \div 2)
    ELSE Iota(original_rows)

\* mutant of ColsExceed: the comparison is >=
ColsReach(original_cols, max_cols) == original_cols >= max_cols

\* original_cols > max_cols
ColsExceed(original_cols, max_cols) == original_cols > max_cols

\* list(columns).index(label)
IndexOf(columns, label) ==
    CHOOSE i \in 1..Len(columns) :
        columns[i] = label /\ \A j \in 1..(i - 1) : columns[j] # label

\* columns[:max_cols // 2].tolist() + columns[-(max_cols - max_cols // 2):].tolist()
\* mutant of HeadTailLabels: the tail is as long as the head
HeadTailLabelsEven(columns, max_cols) ==
    (IF max_cols \div 2 = 0 THEN <<>> ELSE Prefix(columns, max_cols \div 2))
    \o (IF max_cols \div 2 = 0 THEN <<>> ELSE Suffix(columns, max_cols \div 2))

HeadTailLabels(columns, max_cols) ==
    (IF max_cols \div 2 = 0 THEN <<>> ELSE Prefix(columns, max_cols \div 2))
    \o Suffix(columns, max_cols - max_cols \div 2)

\* sorted(list(set(labels)), key=list(columns).index)
SortedUnique(labels, columns) ==
    LET firsts == SelectSeq(Iota(Len(columns)),
                     LAMBDA p : columns[p] \in Range(labels)
                                /\ IndexOf(columns, columns[p]) = p)
    IN  [i \in DOMAIN firsts |-> columns[firsts[i]]]

ColsToShow(columns, max_cols) ==
    SortedUnique(HeadTailLabels(columns, max_cols), columns)

\* df_display[cols_to_show]: every column that carries a requested label,
\* label by label
RECURSIVE GetItem(_, _)
GetItem(columns, labels) ==
    IF Len(labels) = 0 THEN <<>>
    ELSE SelectSeq(Iota(Len(columns)), LAMBDA p : columns[p] = labels[1])
         \o GetItem(columns, Tail(labels))

\* the positions of the columns of df_display after column truncation
ColumnsDisplayed(columns, max_cols) ==
    IF ColsExceed(Len(columns), max_cols)
    THEN GetItem(columns, ColsToShow(columns, max_cols))
    ELSE Iota(Len(columns))

TruncationNotes(df, max_rows, max_cols) ==
    (IF RowsExceed(df.nrows, max_rows)
     THEN <<RowNote(max_rows, df.nrows)>> ELSE <<>>)
    \o
    (IF ColsExceed(Len(df.columns), max_cols)
     THEN <<ColNote(Len(ColsToShow(df.columns, max_cols)), Len(df.columns))>>
     ELSE <<>>)

\* f"Note: Data truncated ({notes}).\n\n{markdown_table}"
WithNote(truncation_notes, markdown_table) ==
    <<NotePrefix>> \o Join(NoteSep, truncation_notes) \o <<NoteSuffix>> \o <<markdown_table>>

Return(text) == [kind |-> "return", text |-> text, exc |-> ""]

Raise(exc) == [kind |-> "raise", text |-> <<>>, exc |-> exc]

\* mutant of FormatWithMaxRows: the note is prepended to the error text too
FormatNotingErrors(df, max_rows, max_cols, renderable) ==
    LET truncation_notes == TruncationNotes(df, max_rows, max_cols)
        markdown_table == Table(ColumnsDisplayed(df.columns, max_cols),
                                RowsToShow(df.nrows, max_rows))
        body == IF renderable THEN <<markdown_table>> ELSE RENDER_ERROR
    IN  IF Len(truncation_notes) > 0
        THEN Return(<<NotePrefix>> \o Join(NoteSep, truncation_notes)
                    \o <<NoteSuffix>> \o body)
        ELSE Return(body)

\* the part of format_df_to_markdown after max_rows is known
FormatWithMaxRows(df, max_rows, max_cols, renderable) ==
    LET truncation_notes == TruncationNotes(df, max_rows, max_cols)
        markdown_table == Table(ColumnsDisplayed(df.columns, max_cols),
                                RowsToShow(df.nrows, max_rows))
    IN  IF ~renderable THEN Return(RENDER_ERROR)
        ELSE IF Len(truncation_notes) > 0
             THEN Return(WithNote(truncation_notes, markdown_table))
             ELSE Return(<<markdown_table>>)

\* mutant of EffectiveMaxCols: the default is 20
EffectiveMaxColsTwenty(max_cols) == IF max_cols.given THEN max_cols.v ELSE 20

\* max_cols as received: the default of the signature when not supplied
\* (the value MAX_MARKDOWN_COLS had when the def statement ran)
EffectiveMaxCols(max_cols) == IF max_cols.given THEN max_cols.v ELSE MAX_MARKDOWN_COLS

FormatDfToMarkdown(df, max_rows, max_cols, start_date, end_date, renderable) ==
    IF Empty(df) THEN Return(NO_DATA)
    ELSE IF max_rows.given
         THEN FormatWithMaxRows(df, max_rows.v, EffectiveMaxCols(max_cols), renderable)
         ELSE LET dyn == CalculateDynamicMaxRows(df, start_date, end_date)
              IN  IF dyn.raised THEN Raise(dyn.exc)
                  ELSE FormatWithMaxRows(df, dyn.v, EffectiveMaxCols(max_cols), renderable)

\* The statements of format_df_to_markdown and _calculate_dynamic_max_rows bind
\* new objects (head, tail, concat, column selection, to_datetime) to local
\* names; none assigns into df.  The dataset the caller holds after the call:
\* mutant of DatasetAfter: the 'date' column is converted in place
DatasetConvertedInPlace(df) ==
    IF df.date_kind = "str" THEN [df EXCEPT !.date_kind = "datetime"] ELSE df

DatasetAfter(df) == df

\* Neither function has a global statement: the module attributes after a call
\* mutant of GlobalsAfter: the last explicit cap is remembered
GlobalsRemembering(g, a) ==
    IF a.max_rows.given THEN [g EXCEPT !.MAX_MARKDOWN_ROWS = a.max_rows.v] ELSE g

GlobalsAfter(g, a) == g

\* ------------------------------------------------------- inputs of the model
Labels == {DATE, 1, 2}

\* column label lists of small datasets; 'date' labels at most one column
SmallShapes ==
    {c \in UNION {[1..n -> Labels] : n \in 1..MaxNameLen} :
        Cardinality({i \in DOMAIN c : c[i] = DATE}) <= 1}

\* wide datasets around the default column cap, labels all distinct
WideShapes == {Iota(n) : n \in {12, 13, 20, 21}}

\* tall datasets around the floor and the ceiling of the dynamic row budget
TallRowCounts == {51, 250, 251}

TallShapes == {<<1>>, <<DATE, 1>>}

\* day numbers of a date column of n rows: ascending or descending in equal steps
DateSeqs(n) ==
    {[i \in 1..n |-> (i - 1) * step] : step \in {1, 2}}
    \cup {[i \in 1..n |-> (n - i) * 3]}

\* what the rows of a dataset with these labels may hold under 'date'
DateContents(columns, nrows, seqs) ==
    IF DATE \notin Range(columns) THEN {<<"none", <<>>>>}
    ELSE IF nrows = 0 THEN {<<"other", <<>>>>}
    ELSE {<<"datetime", v>> : v \in seqs}
         \cup {<<"str", [i \in 1..nrows |-> (i - 1) * 2]>>,
               <<"badstr", <<>>>>, <<"other", <<>>>>}

SmallDatasets ==
    UNION {{DataFrame(c, n, k[1], k[2]) :
               k \in DateContents(c, n, {[i \in 1..n |-> (i - 1) * 200]})} :
           <<c, n>> \in SmallShapes \X (0..MaxSmallRows)}

TallDatasets ==
    UNION {{DataFrame(c, n, k[1], k[2]) : k \in DateContents(c, n, DateSeqs(n))} :
           <<c, n>> \in TallShapes \X TallRowCounts}

WideDatasets == {DataFrame(c, n, "none", <<>>) : <<c, n>> \in WideShapes \X {0, 1}}

\* n >= 2 dated rows whose first and last day are span days apart
Spread(n, span) == [i \in 1..n |-> IF i = n THEN span ELSE 0]

\* dated datasets of a given span: <<rows, span in days>>
SpanDatasets ==
    {DataFrame(<<DATE, 1>>, p[1], k, Spread(p[1], p[2])) :
        p \in {<<51, 36>>, <<251, 365>>, <<300, 300>>}, k \in {"datetime", "str"}}

Datasets ==
    SmallDatasets \cup TallDatasets \cup WideDatasets \cup SpanDatasets
    \cup {DataFrame(<<>>, 0, "none", <<>>)}

MaxRowsArgs == {None} \cup {Some(n) : n \in 1..MaxRowsArg}

MaxColsArgs == {None} \cup {Some(n) : n \in 1..MaxColsArg}

\* pairs <<start_date, end_date>>
DateArgPairs ==
    { <<NoDate, NoDate>>,
      <<Ymd(2023, 1, 1), EmptyStr>>,
      <<Ymd(2023, 1, 1), Ymd(2023, 2, 6)>>,
      <<Ymd(2023, 1, 1), Ymd(2023, 7, 20)>>,
      <<Ymd(2023, 3, 1), Ymd(2024, 3, 1)>>,
      <<BadText, Ymd(2023, 2, 6)>> }

Args(df, max_rows, max_cols, start_date, end_date, renderable) ==
    [df |-> df, max_rows |-> max_rows, max_cols |-> max_cols,
     start_date |-> start_date, end_date |-> end_date, renderable |-> renderable]

\* renderable tells whether to_markdown succeeds on the values of the dataset
\* the calls of the worked scenarios: 8 rows and 25 columns under
\* max_rows=50, max_cols=20, and under the caps the tools pass
ScenarioCalls ==
    {Args(DataFrame(Iota(25), 8, "none", <<>>), Some(p[1]), Some(p[2]), NoDate, NoDate, TRUE) :
        p \in {<<50, 20>>, <<20, 10>>, <<10, 10>>}}

Calls ==
    {Args(df, max_rows, max_cols, dates[1], dates[2], renderable) :
        df \in Datasets, max_rows \in MaxRowsArgs, max_cols \in MaxColsArgs,
        dates \in DateArgPairs, renderable \in BOOLEAN}
    \cup ScenarioCalls

NoResult == [kind |-> "none", text |-> <<>>, exc |-> ""]

\* ------------------------------------------------------------ state machine
\* pc = "called": format_df_to_markdown was entered with args;
\* pc = "done": it returned or raised, as result tells.
\* budget is the value line 36 assigns to max_rows, when it does.
ModuleGlobals ==
    [MAX_MARKDOWN_ROWS |-> MAX_MARKDOWN_ROWS, MAX_MARKDOWN_COLS |-> MAX_MARKDOWN_COLS]

Init ==
    /\ pc = "called"
    /\ args \in Calls
    /\ budget = None
    /\ result = NoResult
    /\ globals = ModuleGlobals
    /\ log = <<>>
    /\ procs = <<>>
    /\ reqs = <<>>
    /\ invoked = <<>>
    /\ sessions = <<>>
    /\ served = <<>>
    /\ tool = <<>>

\* the value _calculate_dynamic_max_rows hands to line 36
BudgetOf(a) ==
    IF Empty(a.df) \/ a.max_rows.given THEN None
    ELSE LET dyn == CalculateDynamicMaxRows(a.df, a.start_date, a.end_date)
         IN  IF dyn.raised THEN None ELSE Some(dyn.v)

Format ==
    /\ pc = "called"
    /\ budget' = BudgetOf(args)
    /\ result' = FormatDfToMarkdown(args.df, args.max_rows, args.max_cols,
                                    args.start_date, args.end_date, args.renderable)
    /\ pc' = "done"
    /\ args' = [args EXCEPT !.df = DatasetAfter(args.df)]
    /\ globals' = GlobalsAfter(globals, args)
    /\ log' = Append(log, [args |-> args, result |-> result'])
    /\ UNCHANGED <<procs, reqs, invoked, sessions, served, tool>>

Next == Format

Spec == Init /\ [][Next]_vars

\* ----------------------------------------------- repeated calls (one caller)
\* a few calls that take different paths through the function
TallUnparsed == DataFrame(<<DATE, 1>>, 251, "badstr", <<>>)

RepeatCalls ==
    { Args(TallUnparsed, None, None, NoDate, NoDate, TRUE),
      Args(TallUnparsed, Some(3), None, NoDate, NoDate, TRUE),
      Args(TallUnparsed, Some(3), Some(1), NoDate, NoDate, FALSE),
      Args(DataFrame(<<DATE, 1>>, 51, "datetime", Spread(51, 36)), None, None,
           NoDate, NoDate, TRUE),
      Args(DataFrame(<<1, 2, 1>>, 2, "none", <<>>), Some(1), Some(2), NoDate, NoDate, TRUE),
      Args(DataFrame(<<1>>, 1, "none", <<>>), None, None, NoDate, NoDate, TRUE),
      Args(DataFrame(<<1>>, 0, "none", <<>>), None, None, NoDate, NoDate, TRUE) }

InitCalls ==
    /\ pc = "called"
    /\ args \in RepeatCalls
    /\ budget = None
    /\ result = NoResult
    /\ globals = ModuleGlobals
    /\ log = <<>>
    /\ procs = <<>>
    /\ reqs = <<>>
    /\ invoked = <<>>
    /\ sessions = <<>>
    /\ served = <<>>
    /\ tool = <<>>

\* the caller makes its next call
CallAgain ==
    /\ pc = "done"
    /\ Len(log) < MaxCalls
    /\ \E a \in RepeatCalls : args' = a
    /\ pc' = "called"
    /\ budget' = None
    /\ result' = NoResult
    /\ UNCHANGED <<globals, log, procs, reqs, invoked, sessions, served, tool>>

NextCalls == Format \/ CallAgain

SpecCalls == InitCalls /\ [][NextCalls]_vars

\* ------------------------------------------- invocations running side by side
\* Each invocation has its own frame: args and the local names max_rows,
\* df_display (rows, cols) and truncation_notes.  An invocation is cut into the
\* steps between which another thread may run.
ProcIds == {1, 2}

ConcCalls ==
    { Args(TallUnparsed, None, None, NoDate, NoDate, TRUE),
      Args(TallUnparsed, Some(3), Some(1), NoDate, NoDate, TRUE),
      Args(DataFrame(<<DATE, 1>>, 51, "datetime", Spread(51, 36)), None, None,
           NoDate, NoDate, FALSE),
      Args(DataFrame(<<1>>, 1, "none", <<>>), None, None, NoDate, NoDate, TRUE),
      Args(DataFrame(<<1>>, 0, "none", <<>>), Some(1), None, NoDate, NoDate, TRUE) }

Frame(a) ==
    [pc |-> "called", args |-> a, max_rows |-> None, rows |-> <<>>, cols |-> <<>>,
     truncation_notes |-> <<>>, result |-> NoResult]

InitConc ==
    /\ pc = "called"
    /\ args = Args(DataFrame(<<>>, 0, "none", <<>>), None, None, NoDate, NoDate, TRUE)
    /\ budget = None
    /\ result = NoResult
    /\ globals = ModuleGlobals
    /\ log = <<>>
    /\ procs \in [ProcIds -> {Frame(a) : a \in ConcCalls}]
    /\ reqs = <<>>
    /\ invoked = <<>>
    /\ sessions = <<>>
    /\ served = <<>>
    /\ tool = <<>>

\* lines 30-32
Enter(p) ==
    /\ procs[p].pc = "called"
    /\ procs' = [procs EXCEPT ![p] =
          IF Empty(@.args.df)
          THEN [@ EXCEPT !.pc = "done", !.result = Return(NO_DATA)]
          ELSE [@ EXCEPT !.pc = "budget"]]
    /\ globals' = GlobalsAfter(globals, procs[p].args)
    /\ UNCHANGED <<pc, args, budget, result, log, reqs, invoked, sessions, served, tool>>

\* lines 35-37: the module attribute MAX_MARKDOWN_ROWS is read here
ComputeBudget(p) ==
    /\ procs[p].pc = "budget"
    /\ LET a == procs[p].args
           dyn == CalculateDynamicMaxRows(a.df, a.start_date, a.end_date)
       IN  procs' = [procs EXCEPT ![p] =
             IF a.max_rows.given
             THEN [@ EXCEPT !.pc = "truncate", !.max_rows = a.max_rows]
             ELSE IF dyn.raised
                  THEN [@ EXCEPT !.pc = "done", !.result = Raise(dyn.exc)]
                  ELSE [@ EXCEPT !.pc = "truncate", !.max_rows = Some(dyn.v)]]
    /\ globals' = GlobalsAfter(globals, procs[p].args)
    /\ UNCHANGED <<pc, args, budget, result, log, reqs, invoked, sessions, served, tool>>

\* lines 39-62
Truncate(p) ==
    /\ procs[p].pc = "truncate"
    /\ LET f == procs[p]
           a == f.args
           max_cols == EffectiveMaxCols(a.max_cols)
       IN  procs' = [procs EXCEPT ![p] =
             [f EXCEPT !.pc = "render",
                       !.rows = RowsToShow(a.df.nrows, f.max_rows.v),
                       !.cols = ColumnsDisplayed(a.df.columns, max_cols),
                       !.truncation_notes = TruncationNotes(a.df, f.max_rows.v, max_cols)]]
    /\ globals' = GlobalsAfter(globals, procs[p].args)
    /\ UNCHANGED <<pc, args, budget, result, log, reqs, invoked, sessions, served, tool>>

\* lines 64-78
Render(p) ==
    /\ procs[p].pc = "render"
    /\ LET f == procs[p]
           markdown_table == Table(f.cols, f.rows)
       IN  procs' = [procs EXCEPT ![p] =
             [f EXCEPT !.pc = "done",
                       !.result =
                          IF ~f.args.renderable THEN Return(RENDER_ERROR)
                          ELSE IF Len(f.truncation_notes) > 0
                               THEN Return(WithNote(f.truncation_notes, markdown_table))
                               ELSE Return(<<markdown_table>>)]]
    /\ globals' = GlobalsAfter(globals, procs[p].args)
    /\ UNCHANGED <<pc, args, budget, result, log, reqs, invoked, sessions, served, tool>>

NextConc ==
    \E p \in ProcIds : Enter(p) \/ ComputeBudget(p) \/ Truncate(p) \/ Render(p)

SpecConc == InitConc /\ [][NextConc]_vars

\* ------------------------------------------------------ the MCP endpoint
\* A JSON value of the request body, and the Python value json() makes of it:
\* its type and its text as str() gives it.
J(t, v) == [t |-> t, v |-> v]

Absent == J("absent", "")      \* the key is not in the object
JNull == J("null", "None")
JStr(s) == J("str", s)
JNum(s) == J("num", s)
JList == J("array", "[]")
JObj == J("object", "{}")
PyNone == J("none", "None")

\* dict.get(key): None when the key is missing, and when it holds null
Get(field) == IF field.t \in {"absent", "null"} THEN PyNone ELSE field

\* mutant of GetOrEmptyDict: null is taken for {} too
GetOrEmptyDictLenient(field) ==
    IF field.t \in {"absent", "null"} THEN JObj ELSE field

\* dict.get(key, {}): the default stands in for a missing key only
GetOrEmptyDict(field) ==
    IF field.t = "absent" THEN JObj
    ELSE IF field.t = "null" THEN PyNone ELSE field

\* f"{x}"
FString(x) == x.v

\* --- request bodies
Body(json, method, id, params, name, arguments) ==
    [json |-> json, method |-> method, id |-> id, params |-> params, name |-> name,
     arguments |-> arguments]

\* tools registered on mcp_app (two of them stand for all)
RegisteredTools == <<"get_hs300_stocks", "get_zz500_stocks">>

KnownMethods == {"initialize", "notifications/initialized", "tools/list", "tools/call"}

MethodValues ==
    {Absent, JNull, JNum("5"), JStr("tools/foo")} \cup {JStr(m) : m \in KnownMethods}

IdValues == {Absent, JNum("1"), JStr("a")}

\* <<params, params.name, params.arguments>>
ParamsValues ==
    {<<Absent, Absent, Absent>>, <<JNull, Absent, Absent>>, <<JList, Absent, Absent>>,
     <<JObj, Absent, Absent>>, <<JObj, JStr("get_hs300_stocks"), JObj>>,
     <<JObj, JStr("get_hs300_stocks"), Absent>>, <<JObj, JStr("get_zz500_stocks"), JObj>>,
     <<JObj, JStr("no_such_tool"), JObj>>}

Bodies ==
    {Body("malformed", Absent, Absent, Absent, Absent, Absent),
     Body("array", Absent, Absent, Absent, Absent, Absent),
     Body("null", Absent, Absent, Absent, Absent, Absent)}
    \cup {Body("object", m, i, p[1], p[2], p[3]) :
            m \in MethodValues, i \in IdValues,
            p \in {<<Absent, Absent, Absent>>, <<JObj, JStr("get_hs300_stocks"), JObj>>}}
    \cup {Body("object", JStr("tools/call"), i, p[1], p[2], p[3]) :
            i \in IdValues, p \in ParamsValues}

\* --- responses
Reply(kind, id, code, message, content) ==
    [status |-> 200, jsonrpc |-> "2.0", id |-> id, kind |-> kind, code |-> code,
     message |-> message, result |-> content]

NoResponse ==
    [status |-> 0, jsonrpc |-> "", id |-> Absent, kind |-> "none", code |-> 0,
     message |-> <<>>, result |-> <<>>]

\* lines 75-89
InitializeReply(request_id) ==
    Reply("result", request_id, 0, <<>>,
          <<"protocolVersion", "2024-11-05", "capabilities", "tools",
            "serverInfo", "a_share_data_provider", "1.0.0">>)

\* line 93: {"status": "ok"}, no JSON-RPC envelope
InitializedReply ==
    [status |-> 200, jsonrpc |-> "", id |-> Absent, kind |-> "plain", code |-> 0,
     message |-> <<>>, result |-> <<"status", "ok">>]

\* lines 114-121
ToolsListReply(request_id, tools_list) ==
    Reply("result", request_id, 0, <<>>, <<"tools">> \o tools_list)

\* lines 123-134
ListFailureReply(request_id, e) ==
    Reply("error", request_id, -32603, <<"Failed to get tools list: ", e>>, <<>>)

\* lines 144-150
ToolResultReply(request_id, text) ==
    Reply("result", request_id, 0, <<>>, <<"content", "text", text>>)

\* lines 175-187
ParseErrorReplyOk(e) ==
    Reply("error", PyNone, -32700, <<"Parse error: ", e>>, <<>>)

ParseErrorReply(e) ==
    [Reply("error", PyNone, -32700, <<"Parse error: ", e>>, <<>>) EXCEPT !.status = 400]

\* lines 151-159
ToolFailureUncaught(request_id, e) == ParseErrorReply(e)

ToolFailureReply(request_id, e) ==
    Reply("error", request_id, -32603, <<"Tool execution failed: ", e>>, <<>>)

\* lines 163-173
UnknownMethodReplyNoId(request_id, method) ==
    Reply("error", PyNone, -32601, <<"Method not found: ", FString(method)>>, <<>>)

UnknownMethodReply(request_id, method) ==
    Reply("error", request_id, -32601, <<"Method not found: ", FString(method)>>, <<>>)

\* --- one handler per request in flight
ReqIds == {1, 2}

Handler(body) ==
    [pc |-> "reading", body |-> body, method |-> PyNone, request_id |-> PyNone,
     tool_name |-> PyNone, arguments |-> PyNone, outcome |-> "none",
     response |-> NoResponse]

\* mutant of Respond: request_id is one name shared by all handlers
RespondSharedId(f, response) ==
    [f EXCEPT !.pc = "done", !.response = [response EXCEPT !.id = reqs[1].request_id]]

Respond(f, response) == [f EXCEPT !.pc = "done", !.response = response]

\* sessions = {} on line 63 is assigned once; mcp_endpoint never names it.
\* mutant of SessionsAfter: the handler files every request it saw
SessionsRemembering(store, f) == Append(store, f.body.method)

SessionsAfter(store, f) == store

InitRpc ==
    /\ pc = "called"
    /\ args = Args(DataFrame(<<>>, 0, "none", <<>>), None, None, NoDate, NoDate, TRUE)
    /\ budget = None
    /\ result = NoResult
    /\ globals = ModuleGlobals
    /\ log = <<>>
    /\ procs = <<>>
    /\ reqs \in [ReqIds -> {Handler(b) : b \in Bodies}]
    /\ invoked = <<>>
    /\ sessions = <<>>
    /\ served = <<>>
    /\ tool = <<>>

\* lines 67-173 up to the first await after the body is read: parse the body,
\* pick the branch, and answer at once where the branch awaits nothing
ReadAndDispatch(r) ==
    /\ reqs[r].pc = "reading"
    /\ LET f == reqs[r]
           data == f.body
           method == Get(data.method)
           request_id == Get(data.id)
           g == [f EXCEPT !.method = method, !.request_id = request_id]
           params == GetOrEmptyDict(data.params)
       IN  reqs' = [reqs EXCEPT ![r] =
             IF data.json = "malformed" THEN Respond(f, ParseErrorReply("JSONDecodeError"))
             ELSE IF data.json # "object" THEN Respond(f, ParseErrorReply("AttributeError"))
             ELSE IF method = JStr("initialize") THEN Respond(g, InitializeReply(request_id))
             ELSE IF method = JStr("notifications/initialized")
                  THEN Respond(g, InitializedReply)
             ELSE IF method = JStr("tools/list") THEN [g EXCEPT !.pc = "listing"]
             ELSE IF method = JStr("tools/call")
                  THEN IF params.t # "object"
                       THEN Respond(g, ParseErrorReply("AttributeError"))
                       ELSE [g EXCEPT !.pc = "calling",
                                      !.tool_name = Get(data.name),
                                      !.arguments = GetOrEmptyDict(data.arguments)]
             ELSE Respond(g, UnknownMethodReply(request_id, method))]
    /\ sessions' = SessionsAfter(sessions, reqs[r])
    /\ UNCHANGED <<pc, args, budget, result, globals, log, procs, invoked, served, tool>>

\* lines 96-134: await mcp_app.list_tools() returns or raises
ListTools(r) ==
    /\ reqs[r].pc = "listing"
    /\ \E raises \in BOOLEAN :
          LET f == reqs[r]
          IN  reqs' = [reqs EXCEPT ![r] =
                IF raises
                THEN Respond([f EXCEPT !.outcome = "raised"],
                             ListFailureReply(f.request_id, "Exception"))
                ELSE Respond([f EXCEPT !.outcome = "returned"],
                             ToolsListReply(f.request_id, RegisteredTools))]
    /\ sessions' = SessionsAfter(sessions, reqs[r])
    /\ UNCHANGED <<pc, args, budget, result, globals, log, procs, invoked, served, tool>>

\* lines 142-161: await mcp_app.call_tool(tool_name, arguments) returns the
\* tool's text or raises; it raises for a name that is not registered
CallTool(r) ==
    /\ reqs[r].pc = "calling"
    /\ invoked' = Append(invoked, [req |-> r, name |-> reqs[r].tool_name,
                                    arguments |-> reqs[r].arguments])
    /\ \E raises \in BOOLEAN :
          LET f == reqs[r]
              registered == \E k \in DOMAIN RegisteredTools :
                               f.tool_name = JStr(RegisteredTools[k])
          IN  /\ ~registered => raises
              /\ reqs' = [reqs EXCEPT ![r] =
                   IF raises
                   THEN Respond([f EXCEPT !.outcome = "raised"],
                                ToolFailureReply(f.request_id, "ToolError"))
                   ELSE Respond([f EXCEPT !.outcome = "returned"],
                                ToolResultReply(f.request_id, FString(f.tool_name)))]
    /\ sessions' = SessionsAfter(sessions, reqs[r])
    /\ UNCHANGED <<pc, args, budget, result, globals, log, procs, served, tool>>

NextRpc == \E r \in ReqIds : ReadAndDispatch(r) \/ ListTools(r) \/ CallTool(r)

SpecRpc == InitRpc /\ [][NextRpc]_vars

\* ----------------------------------------- one client, one request at a time
\* the requests of test_current_server.py and some it does not send
SessionBodies ==
    {Body("object", JStr("initialize"), JNum("1"), JObj, Absent, Absent),
     Body("object", JStr("notifications/initialized"), Absent, Absent, Absent, Absent),
     Body("object", JStr("tools/list"), JNum("1"), JObj, Absent, Absent),
     Body("object", JStr("tools/call"), JStr("a"), JObj, JStr("get_hs300_stocks"), JObj),
     Body("object", JStr("tools/call"), JNum("1"), JObj, JStr("no_such_tool"), JObj),
     Body("object", JStr("tools/foo"), JNum("1"), Absent, Absent, Absent)}

InitSession ==
    /\ pc = "called"
    /\ args = Args(DataFrame(<<>>, 0, "none", <<>>), None, None, NoDate, NoDate, TRUE)
    /\ budget = None
    /\ result = NoResult
    /\ globals = ModuleGlobals
    /\ log = <<>>
    /\ procs = <<>>
    /\ reqs \in [{1} -> {Handler(b) : b \in SessionBodies}]
    /\ invoked = <<>>
    /\ sessions = <<>>
    /\ served = <<>>
    /\ tool = <<>>

\* the client receives the response
Deliver ==
    /\ reqs[1].pc = "done"
    /\ served' = Append(served, [body |-> reqs[1].body, outcome |-> reqs[1].outcome,
                                  response |-> reqs[1].response])
    /\ reqs' = [reqs EXCEPT ![1].pc = "delivered"]
    /\ UNCHANGED <<pc, args, budget, result, globals, log, procs, invoked, sessions, tool>>

\* the client sends its next request
SendNext ==
    /\ reqs[1].pc = "delivered"
    /\ Len(served) < MaxRequests
    /\ \E b \in SessionBodies : reqs' = [reqs EXCEPT ![1] = Handler(b)]
    /\ UNCHANGED <<pc, args, budget, result, globals, log, procs, invoked, sessions, served,
                   tool>>

NextSession ==
    ReadAndDispatch(1) \/ ListTools(1) \/ CallTool(1) \/ Deliver \/ SendNext

SpecSession == InitSession /\ [][NextSession]_vars

\* ------------------------------------------------------------ the tool layer
\* A str argument whose characters matter (year) is the sequence of its
\* characters; the other str arguments are whole strings.
Digits == {"0", "1", "2", "3", "4", "5", "6", "7", "8", "9"}

\* year.isdigit()
IsDigit(year) == Len(year) > 0 /\ \A i \in DOMAIN year : year[i] \in Digits

\* the characters of a str as text
Chars(str) == [i \in DOMAIN str |-> Lit(str[i])]

\* f"{quarter}"
IntText(n) == Tok("{int}", n, 0, <<>>, <<>>)

ToolArgs(year, quarter, frequency, adjust_flag, year_type, start_date, end_date) ==
    [year |-> year, quarter |-> quarter, frequency |-> frequency,
     adjust_flag |-> adjust_flag, year_type |-> year_type,
     start_date |-> start_date, end_date |-> end_date]

\* --- the texts of the argument checks
\* base.py line 43, stock_market.py line 177
InvalidYear(year) ==
    <<Lit("Error: "), Lit("Invalid year '")>> \o Chars(year)
    \o <<Lit("'. Please provide a 4-digit year.")>>

\* base.py line 46
InvalidQuarter(quarter) ==
    <<Lit("Error: "), Lit("Invalid quarter '"), IntText(quarter),
      Lit("'. Must be between 1 and 4.")>>

\* stock_market.py line 68
InvalidFrequency(frequency) ==
    <<Lit("Error: "), Lit("Invalid frequency '"), Lit(frequency),
      Lit("'. Valid options are: ['d', 'w', 'm', '5', '15', '30', '60']")>>

\* stock_market.py line 71
InvalidAdjustFlag(adjust_flag) ==
    <<Lit("Error: "), Lit("Invalid adjust_flag '"), Lit(adjust_flag),
      Lit("'. Valid options are: ['1', '2', '3']")>>

\* stock_market.py line 174
InvalidYearType(year_type) ==
    <<Lit("Error: "), Lit("Invalid year_type '"), Lit(year_type),
      Lit("'. Valid options are: 'report', 'operate'")>>

\* macroeconomic.py line 79: the string is not an f-string, the braces stay
InvalidReserveYearType(year_type) ==
    <<Lit("Error: "), Lit("Invalid year_type '"), Lit("{year_type}"),
      Lit("'. Valid options are '0' (announcement date) or '1' (effective date).")>>

\* --- the registered tools, by the code that serves them
FinancialTools == {"get_profit_data"}             \* call_financial_data_tool
MacroTools == {"get_deposit_rate_data"}           \* call_macro_data_tool
IndexTools == {"get_hs300_stocks"}                \* call_index_constituent_tool
CatchAllTools == {"get_stock_industry"}           \* a single except Exception

\* mutant of ValidateFinancial: quarter is checked first
ValidateFinancialQuarterFirst(a) ==
    IF ~(1 <= a.quarter /\ a.quarter <= 4) THEN InvalidQuarter(a.quarter)
    ELSE IF ~IsDigit(a.year) \/ Len(a.year) # 4 THEN InvalidYear(a.year)
    ELSE <<>>

\* base.py lines 41-46; <<>> when the checks pass
ValidateFinancial(a) ==
    IF ~IsDigit(a.year) \/ Len(a.year) # 4 THEN InvalidYear(a.year)
    ELSE IF ~(1 <= a.quarter /\ a.quarter <= 4) THEN InvalidQuarter(a.quarter)
    ELSE <<>>

\* stock_market.py lines 64-71
ValidateKData(a) ==
    IF a.frequency \notin {"d", "w", "m", "5", "15", "30", "60"}
    THEN InvalidFrequency(a.frequency)
    ELSE IF a.adjust_flag \notin {"1", "2", "3"} THEN InvalidAdjustFlag(a.adjust_flag)
    ELSE <<>>

\* stock_market.py lines 172-177
ValidateDividend(a) ==
    IF a.year_type \notin {"report", "operate"} THEN InvalidYearType(a.year_type)
    ELSE IF ~IsDigit(a.year) \/ Len(a.year) # 4 THEN InvalidYear(a.year)
    ELSE <<>>

\* macroeconomic.py lines 77-79
ValidateReserve(a) ==
    IF a.year_type \notin {"0", "1"} THEN InvalidReserveYearType(a.year_type) ELSE <<>>

\* mutant of Validation: nothing is checked
NoValidation(name, a) == <<>>

Validation(name, a) ==
    IF name \in FinancialTools THEN ValidateFinancial(a)
    ELSE IF name = "get_historical_k_data" THEN ValidateKData(a)
    ELSE IF name = "get_dividend_data" THEN ValidateDividend(a)
    ELSE IF name = "get_required_reserve_ratio_data" THEN ValidateReserve(a)
    ELSE <<>>

\* --- the data provider
Exc(class, msg) == [class |-> class, msg |-> msg]

NoExc == Exc("", "")

NoDf == DataFrame(<<>>, 0, "none", <<>>)

ProviderRaises(e) == [raises |-> TRUE, exc |-> e, df |-> NoDf, renderable |-> TRUE]

ProviderReturns(df, renderable) ==
    [raises |-> FALSE, exc |-> NoExc, df |-> df, renderable |-> renderable]

NotProvided == [raises |-> FALSE, exc |-> NoExc, df |-> NoDf, renderable |-> FALSE]

ProviderExceptions ==
    {Exc("NoDataFoundError", "No data found"), Exc("LoginError", "login failed"),
     Exc("DataSourceError", "query failed"), Exc("ValueError", "bad field"),
     Exc("RuntimeError", "boom")}

\* 11 columns of which the first and the sixth carry the same label
DuplicateLabels == <<1, 2, 3, 4, 5, 1, 6, 7, 8, 9, 10>>

ProviderDatasets ==
    {DataFrame(<<1, 2>>, 2, "none", <<>>),
     DataFrame(<<1>>, 0, "none", <<>>),
     DataFrame(<<DATE, 1>>, 2, "datetime", <<0, 200>>),
     DataFrame(<<DATE, 1>>, 2, "str", <<0, 200>>),
     DataFrame(<<DATE, 1>>, 2, "badstr", <<>>),
     DataFrame(<<DATE, 1>>, 2, "other", <<>>),
     DataFrame(<<DATE, 1>>, 51, "str", Spread(51, 36)),
     DataFrame(Iota(11), 25, "none", <<>>),
     DataFrame(DuplicateLabels, 12, "none", <<>>)}

ProviderOutcomes ==
    {ProviderRaises(e) : e \in ProviderExceptions}
    \cup {ProviderReturns(df, TRUE) : df \in ProviderDatasets}
    \cup {ProviderReturns(DataFrame(<<DATE, 1>>, 2, "str", <<0, 200>>), FALSE)}

\* --- the call of the formatter each tool makes
FormatCall(name, a, df, renderable) ==
    IF name \in FinancialTools
    THEN Args(df, Some(20), Some(10), NoDate, NoDate, renderable)
    ELSE IF name = "get_stock_basic_info"
    THEN Args(df, Some(10), Some(10), NoDate, NoDate, renderable)
    ELSE IF name = "get_trade_dates"
    THEN Args(df, None, None, a.start_date, a.end_date, renderable)
    ELSE Args(df, None, None, NoDate, NoDate, renderable)

\* --- the except clauses, first match first
ErrorText(middle, e) == <<Lit("Error: ")>> \o middle \o <<Lit(e.msg)>>

\* mutant of Handle: no except Exception clause
HandleTypedOnly(name, e) ==
    IF e.class = "NoDataFoundError" THEN Return(ErrorText(<<>>, e))
    ELSE IF e.class = "LoginError"
    THEN Return(ErrorText(<<Lit("Could not connect to data source. ")>>, e))
    ELSE IF e.class = "DataSourceError"
    THEN Return(ErrorText(<<Lit("An error occurred while fetching data. ")>>, e))
    ELSE Raise(e.class)

Handle(name, e) ==
    IF name \in CatchAllTools
    THEN Return(ErrorText(<<Lit("An unexpected error occurred: ")>>, e))
    ELSE IF e.class = "NoDataFoundError" THEN Return(ErrorText(<<>>, e))
    ELSE IF e.class = "LoginError"
    THEN Return(ErrorText(<<Lit("Could not connect to data source. ")>>, e))
    ELSE IF e.class = "DataSourceError"
    THEN Return(ErrorText(<<Lit("An error occurred while fetching data. ")>>, e))
    ELSE IF e.class = "ValueError"
    THEN Return(ErrorText(
            IF name = "get_stock_basic_info"
            THEN <<Lit("Invalid input parameter or requested field not available. ")>>
            ELSE <<Lit("Invalid input parameter. ")>>, e))
    ELSE Return(ErrorText(<<Lit("An unexpected error occurred: ")>>, e))

\* str(e) of the KeyError that df['date'] raises
FormatterExc(class) == Exc(class, "'date'")

\* --- what mcp_endpoint makes of the tool's outcome (lines 142-161)
NoAnswer == [kind |-> "none", code |-> 0, text |-> <<>>]

AnswerOf(outcome) ==
    IF outcome.kind = "return"
    THEN [kind |-> "result", code |-> 0, text |-> outcome.text]
    ELSE [kind |-> "error", code |-> -32603,
          text |-> <<Lit("Tool execution failed: "), Lit(outcome.exc)>>]

\* --- tool invocations
Year2023 == <<"2", "0", "2", "3">>

Years == {Year2023, <<"2", "3">>, <<"2", "0", "a", "3">>, <<"2", "0", "2", "3", "5">>, <<>>}

DefaultArgs == ToolArgs(Year2023, 1, "d", "3", "report", NoDate, NoDate)

ToolCall(name, a) ==
    [pc |-> "called", name |-> name, a |-> a, provider_calls |-> 0,
     provided |-> NotProvided, result |-> NoResult, answer |-> NoAnswer]

ToolCalls ==
    {ToolCall(n, [DefaultArgs EXCEPT !.year = y, !.quarter = q]) :
        n \in FinancialTools, y \in Years, q \in 0..5}
    \cup {ToolCall("get_historical_k_data",
                   [DefaultArgs EXCEPT !.frequency = f, !.adjust_flag = j]) :
            f \in {"d", "60", "D", ""}, j \in {"3", "1", "0"}}
    \cup {ToolCall("get_dividend_data", [DefaultArgs EXCEPT !.year = y, !.year_type = t]) :
            y \in Years, t \in {"report", "operate", "0"}}
    \cup {ToolCall("get_required_reserve_ratio_data", [DefaultArgs EXCEPT !.year_type = t]) :
            t \in {"0", "1", "report"}}
    \cup {ToolCall("get_trade_dates", [DefaultArgs EXCEPT !.start_date = d[1],
                                                          !.end_date = d[2]]) :
            d \in {<<NoDate, NoDate>>, <<Ymd(2023, 1, 1), Ymd(2023, 2, 6)>>}}
    \cup {ToolCall(n, DefaultArgs) :
            n \in MacroTools \cup IndexTools \cup CatchAllTools
                  \cup {"get_all_stock", "get_stock_basic_info"}}

InitTools ==
    /\ pc = "called"
    /\ args = Args(DataFrame(<<>>, 0, "none", <<>>), None, None, NoDate, NoDate, TRUE)
    /\ budget = None
    /\ result = NoResult
    /\ globals = ModuleGlobals
    /\ log = <<>>
    /\ procs = <<>>
    /\ reqs = <<>>
    /\ invoked = <<>>
    /\ sessions = <<>>
    /\ served = <<>>
    /\ tool \in ToolCalls

\* the argument checks at the head of the tool
Validate ==
    /\ tool.pc = "called"
    /\ LET failed == Validation(tool.name, tool.a)
       IN  tool' = IF Len(failed) > 0
                   THEN [tool EXCEPT !.pc = "done", !.result = Return(failed)]
                   ELSE [tool EXCEPT !.pc = "provider"]
    /\ UNCHANGED <<pc, args, budget, result, globals, log, procs, reqs, invoked, sessions,
                   served>>

\* df = data_source_method(...): the provider returns a dataset or raises
CallProvider ==
    /\ tool.pc = "provider"
    /\ \E o \in ProviderOutcomes :
          tool' = IF o.raises
                  THEN [tool EXCEPT !.pc = "done", !.provided = o,
                                    !.provider_calls = @ + 1,
                                    !.result = Handle(tool.name, o.exc)]
                  ELSE [tool EXCEPT !.pc = "format", !.provided = o,
                                    !.provider_calls = @ + 1]
    /\ UNCHANGED <<pc, args, budget, result, globals, log, procs, reqs, invoked, sessions,
                   served>>

\* return format_df_to_markdown(df, ...), inside the tool's try
FormatResult ==
    /\ tool.pc = "format"
    /\ LET c == FormatCall(tool.name, tool.a, tool.provided.df, tool.provided.renderable)
           r == FormatDfToMarkdown(c.df, c.max_rows, c.max_cols, c.start_date, c.end_date,
                                   c.renderable)
       IN  tool' = [tool EXCEPT !.pc = "done",
                                !.result = IF r.kind = "raise"
                                           THEN Handle(tool.name, FormatterExc(r.exc))
                                           ELSE r]
    /\ UNCHANGED <<pc, args, budget, result, globals, log, procs, reqs, invoked, sessions,
                   served>>

\* the dispatcher wraps the outcome of call_tool
Answer ==
    /\ tool.pc = "done"
    /\ tool' = [tool EXCEPT !.pc = "answered", !.answer = AnswerOf(tool.result)]
    /\ UNCHANGED <<pc, args, budget, result, globals, log, procs, reqs, invoked, sessions,
                   served>>

NextTools == Validate \/ CallProvider \/ FormatResult \/ Answer

SpecTools == InitTools /\ [][NextTools]_vars

\* ------------------------------------------------- vocabulary of the claims
Done == pc = "done"

NRows == args.df.nrows

NCols == Len(args.df.columns)

NonEmptyInput == NRows > 0 /\ NCols > 0

\* the call returned a text that ends in a rendered table
RenderedTable ==
    /\ Done /\ result.kind = "return"
    /\ Len(result.text) > 0
    /\ result.text[Len(result.text)].t = "table"

TableOut == result.text[Len(result.text)]

\* the row cap in force at line 43: the argument, or the dynamic budget
RowCapKnown == args.max_rows.given \/ budget.given

RowCap == IF args.max_rows.given THEN args.max_rows.v ELSE budget.v

\* the column cap in force at line 52, read from the inputs
ColCap == IF args.max_cols.given THEN args.max_cols.v ELSE 12

IsRowNote(tok) == tok.t = "rows truncated to {n} (from {m})"

IsColNote(tok) == tok.t = "columns truncated to {n} (from {m})"

HasRowNote == \E i \in DOMAIN result.text : IsRowNote(result.text[i])

HasColNote == \E i \in DOMAIN result.text : IsColNote(result.text[i])

HasNote(tok) == \E i \in DOMAIN result.text : result.text[i] = tok

\* the first h and the last t of n positions, in order
HeadAndTail(n, h, t) == [i \in 1..(h + t) |-> IF i <= h THEN i ELSE n - (h + t) + i]

StrictlyIncreasing(s) == \A i, j \in DOMAIN s : i < j => s[i] < s[j]

DistinctLabels == \A i, j \in 1..NCols : args.df.columns[i] = args.df.columns[j] => i = j

\* -------------------------------------------------------------------- C1
\* C1: a dataset with zero rows, whatever its columns and whatever max_rows,
\* max_cols, start_date and end_date, yields exactly the text
\* "(No data available to display)", with no truncation note in it.
C1_EmptyGivesNoData ==
    (Done /\ NRows = 0) =>
        /\ result.kind = "return"
        /\ result.text = <<Lit("(No data available to display)")>>
        /\ ~HasRowNote /\ ~HasColNote

C1_Witness ==
    /\ Done /\ NRows = 0 /\ NCols > ColCap
    /\ ~args.max_rows.given
    /\ result.text = <<Lit("(No data available to display)")>>

\* -------------------------------------------------------------------- C2
\* C2: when a table is rendered and the dataset has R rows with
\* R > max_rows >= 1 (max_rows the cap in force), the table has exactly
\* max_rows rows, the first max_rows \div 2 original rows followed by the last
\* max_rows - max_rows \div 2, in original order and none twice, and the text
\* holds the note "rows truncated to {max_rows} (from {R})".
C2_RowTruncation ==
    (Done /\ args.renderable /\ RowCapKnown /\ NRows > RowCap /\ RowCap >= 1) =>
        /\ RenderedTable
        /\ Len(TableOut.rows) = RowCap
        /\ TableOut.rows = HeadAndTail(NRows, RowCap \div 2, RowCap - RowCap \div 2)
        /\ StrictlyIncreasing(TableOut.rows)
        /\ HasNote(RowNote(RowCap, NRows))

C2_Witness ==
    /\ RenderedTable /\ RowCapKnown /\ RowCap = 3 /\ NRows = 251
    /\ TableOut.rows = <<1, 250, 251>>
    /\ HasNote(RowNote(3, 251))

\* -------------------------------------------------------------------- C3
\* C3: for a non-empty dataset of R rows with R <= max_rows (the cap in
\* force), the text has no row-truncation note, and the rendered table shows
\* all R rows in their original order.
C3_NoRowTruncation ==
    (Done /\ NonEmptyInput /\ RowCapKnown /\ NRows <= RowCap) =>
        /\ result.kind = "return"
        /\ ~HasRowNote
        /\ args.renderable => (RenderedTable /\ TableOut.rows = Iota(NRows))

C3_Witness ==
    /\ RenderedTable /\ RowCapKnown /\ NRows = RowCap /\ NRows = 2
    /\ TableOut.rows = <<1, 2>>
    /\ ~HasRowNote

\* -------------------------------------------------------------------- C4
\* C4: when a table is rendered for a non-empty dataset of C columns with
\* C > max_cols >= 1, the columns shown are exactly the first max_cols \div 2
\* and the last max_cols - max_cols \div 2 original columns, left to right
\* and none twice, and the note reads "columns truncated to {kept} (from {C})"
\* with kept the number of columns shown.
C4_ColumnTruncation ==
    (RenderedTable /\ NonEmptyInput /\ NCols > ColCap /\ ColCap >= 1) =>
        /\ TableOut.cols = HeadAndTail(NCols, ColCap \div 2, ColCap - ColCap \div 2)
        /\ StrictlyIncreasing(TableOut.cols)
        /\ HasNote(ColNote(Len(TableOut.cols), NCols))

\* -------------------------------------------------------------------- C5
\* C5: for a non-empty dataset of C columns with C <= max_cols, the text has
\* no column-truncation note and the rendered table shows all C columns in
\* original order, whether or not rows were truncated.
C5_NoColumnTruncation ==
    (Done /\ NonEmptyInput /\ result.kind = "return" /\ NCols <= ColCap) =>
        /\ ~HasColNote
        /\ args.renderable => (RenderedTable /\ TableOut.cols = Iota(NCols))

C5_Witness ==
    /\ RenderedTable /\ NCols = ColCap /\ NCols = 2
    /\ HasRowNote
    /\ TableOut.cols = <<1, 2>>
    /\ ~HasColNote

\* -------------------------------------------------------------------- C6
\* C6: a text that starts with "Note: Data truncated (" is returned only when
\* rows or columns were truncated; whenever a table is rendered the text
\* starts so exactly when one of the truncations happened, and is then the
\* prefix, the row note before the column note with "; " between them,
\* ").", a blank line and the table; with neither truncation the text is the
\* table alone.
RowsWereTruncated == RowCapKnown /\ NRows > RowCap

ColsWereTruncated == NCols > ColCap

StartsWithNote == Len(result.text) > 0 /\ result.text[1] = Lit("Note: Data truncated (")

C6_NoteLayout ==
    /\ (Done /\ StartsWithNote) => (RowsWereTruncated \/ ColsWereTruncated)
    /\ RenderedTable =>
        /\ StartsWithNote <=> (RowsWereTruncated \/ ColsWereTruncated)
        /\ (RowsWereTruncated /\ ColsWereTruncated) =>
              /\ Len(result.text) = 6
              /\ IsRowNote(result.text[2])
              /\ result.text[3] = Lit("; ")
              /\ IsColNote(result.text[4])
              /\ result.text[5] = Lit(").\n\n")
        /\ (RowsWereTruncated /\ ~ColsWereTruncated) =>
              /\ Len(result.text) = 4
              /\ IsRowNote(result.text[2])
              /\ result.text[3] = Lit(").\n\n")
        /\ (~RowsWereTruncated /\ ColsWereTruncated) =>
              /\ Len(result.text) = 4
              /\ IsColNote(result.text[2])
              /\ result.text[3] = Lit(").\n\n")
        /\ (~RowsWereTruncated /\ ~ColsWereTruncated) => Len(result.text) = 1

C6_Witness ==
    /\ RenderedTable /\ RowsWereTruncated /\ ColsWereTruncated
    /\ Len(result.text) = 6
    /\ result.text[1] = Lit("Note: Data truncated (")
    /\ IsRowNote(result.text[2]) /\ IsColNote(result.text[4])

\* -------------------------------------------------------------------- C7
\* C7 as stated: without max_cols the column cap is 20: a non-empty dataset
\* of at most 20 columns is rendered with no column-truncation note, and one
\* of more than 20 columns is truncated to 20 columns.
C7_DefaultCapTwenty ==
    (RenderedTable /\ ~args.max_cols.given) =>
        /\ NCols <= 20 => (~HasColNote /\ TableOut.cols = Iota(NCols))
        /\ (NCols > 20 /\ DistinctLabels) =>
              /\ TableOut.cols = HeadAndTail(NCols, 10, 10)
              /\ HasNote(ColNote(20, NCols))

\* C7 as amended: without max_cols the column cap is 12: a non-empty dataset
\* of at most 12 columns is rendered with no column-truncation note and all
\* its columns, and one of more than 12 columns with distinct labels is
\* truncated to 12 columns, the first 6 and the last 6, with the note
\* "columns truncated to 12 (from C)".
C7_DefaultCapTwelve ==
    (RenderedTable /\ ~args.max_cols.given) =>
        /\ NCols <= 12 => (~HasColNote /\ TableOut.cols = Iota(NCols))
        /\ (NCols > 12 /\ DistinctLabels) =>
              /\ TableOut.cols = HeadAndTail(NCols, 6, 6)
              /\ HasNote(ColNote(12, NCols))

C7_Witness ==
    /\ RenderedTable /\ ~args.max_cols.given /\ NCols = 13
    /\ TableOut.cols = <<1, 2, 3, 4, 5, 6, 8, 9, 10, 11, 12, 13>>
    /\ HasNote(ColNote(12, 13))

\* -------------------------------------------------------------------- C8
\* C8: format_df_to_markdown returns a text and never raises, for every
\* dataset (with or without a 'date' column, whatever it holds) and every
\* combination of max_rows, max_cols, start_date and end_date.
C8_NeverRaises == Done => result.kind = "return"

\* -------------------------------------------------------------------- C9
\* C9: with max_rows absent, no column usable as a date column and
\* start_date, end_date not both supplied, the row budget is 250: a dataset
\* of at most 250 rows is rendered in full, one of R > 250 rows is truncated
\* to 250 rows with the note "rows truncated to 250 (from R)".
NoUsableDateColumn == args.df.date_kind \in {"none", "other"}

BothDatesSupplied == args.start_date.kind # "none" /\ args.end_date.kind # "none"

C9_DefaultBudget ==
    (Done /\ NonEmptyInput /\ args.renderable /\ ~args.max_rows.given
          /\ NoUsableDateColumn /\ ~BothDatesSupplied) =>
        /\ RenderedTable
        /\ NRows <= 250 => (TableOut.rows = Iota(NRows) /\ ~HasRowNote)
        /\ NRows > 250 =>
              (TableOut.rows = HeadAndTail(NRows, 125, 125) /\ HasNote(RowNote(250, NRows)))

\* ------------------------------------------------------------------- C10
\* C10: with max_rows absent, no column usable as a date column and
\* start_date, end_date both supplied and well-formed, the row budget is
\* max(50, min(250, floor(days * 250 / 365) + 1)), days being end_date minus
\* start_date.
Floor(n, d) == IF n >= 0 THEN n \div d ELSE -(((-n) + d - 1) \div d)

DaysBetweenArgs ==
    Ordinal(args.end_date.y, args.end_date.m, args.end_date.d)
    - Ordinal(args.start_date.y, args.start_date.m, args.start_date.d)

C10_DateRangeBudget ==
    (Done /\ NonEmptyInput /\ ~args.max_rows.given /\ NoUsableDateColumn
          /\ Parses(args.start_date) /\ Parses(args.end_date)) =>
        budget = Some(MaxOf(50, MinOf(250, Floor(DaysBetweenArgs * 250, 365) + 1)))

\* ------------------------------------------------------------------- C11
\* C11: with max_rows absent and a usable date column spanning D days, the
\* estimate is floor(D * 250 / 365) + 1 and the budget is the estimate bounded
\* below by 50 and above by 250: 365 days give 250, 36 days give 50, and a
\* dataset of 300 rows spanning 300 days is cut to 206 rows, 103 from the
\* head and 103 from the tail, with the note "206 (from 300)".
UsableDateColumn == args.df.date_kind \in {"datetime", "str"}

\* max date minus min date of the input, in days
SpanDays ==
    LET v == args.df.date_vals
    IN  (CHOOSE x \in Range(v) : \A y \in Range(v) : y <= x)
        - (CHOOSE x \in Range(v) : \A y \in Range(v) : x <= y)

DateColumnBudgetCase == Done /\ NonEmptyInput /\ ~args.max_rows.given /\ UsableDateColumn

C11_DateColumnBudget ==
    DateColumnBudgetCase =>
        /\ budget = Some(MaxOf(50, MinOf(250, Floor(SpanDays * 250, 365) + 1)))
        /\ SpanDays = 365 => budget = Some(250)
        /\ SpanDays = 36 => budget = Some(50)
        /\ (SpanDays = 300 /\ NRows = 300) => budget = Some(206)
        /\ (SpanDays = 300 /\ NRows = 300 /\ args.renderable) =>
              /\ RenderedTable
              /\ TableOut.rows = HeadAndTail(300, 103, 103)
              /\ HasNote(RowNote(206, 300))

C11_Witness ==
    /\ DateColumnBudgetCase /\ SpanDays = 300 /\ NRows = 300
    /\ RenderedTable /\ Len(TableOut.rows) = 206
    /\ HasNote(RowNote(206, 300))
    /\ ~HasColNote

\* ------------------------------------------------------------------- C12
\* C12 as stated: a budget derived from the date column never exceeds the
\* actual row count: it is min(row count, min(estimate, 250)).
C12_BudgetClampedToRows ==
    DateColumnBudgetCase =>
        /\ budget.given
        /\ budget.v <= NRows
        /\ budget.v = MinOf(NRows, MinOf(Floor(SpanDays * 250, 365) + 1, 250))

\* C12 as amended: a budget derived from the date column is the estimate
\* capped at 250 and raised to at least 50, whatever the row count, so it
\* exceeds the row count of a dataset of fewer than 50 rows; the rendered
\* table has min(row count, budget) rows.
C12_BudgetNotClampedToRows ==
    DateColumnBudgetCase =>
        /\ budget.given
        /\ budget.v >= 50
        /\ budget.v >= MinOf(Floor(SpanDays * 250, 365) + 1, 250)
        /\ budget.v <= 250
        /\ NRows < 50 => budget.v > NRows
        /\ args.renderable => (RenderedTable /\ Len(TableOut.rows) = MinOf(NRows, budget.v))

C12_Witness ==
    /\ DateColumnBudgetCase /\ NRows = 2 /\ SpanDays = 200
    /\ budget = Some(137)
    /\ RenderedTable /\ TableOut.rows = <<1, 2>>

\* ------------------------------------------------------------------- C13
\* C13 as stated: with max_rows absent and a 'date' column whose values fail
\* to parse, the budget is the date-range estimate when start_date and
\* end_date are both supplied and parse, and 250 when they are not; a
\* start_date/end_date that fails to parse gives 250.
UnparsedDateColumn == Done /\ NonEmptyInput /\ ~args.max_rows.given /\ args.df.date_kind = "badstr"

BothDatesParse == Parses(args.start_date) /\ Parses(args.end_date)

ArgRangeBudget == MaxOf(50, MinOf(250, Floor(DaysBetweenArgs * 250, 365) + 1))

C13_FallsToDateRange ==
    /\ UnparsedDateColumn =>
          budget = (IF BothDatesParse THEN Some(ArgRangeBudget) ELSE Some(250))
    /\ (Done /\ NonEmptyInput /\ ~args.max_rows.given /\ args.df.date_kind = "other"
            /\ Truthy(args.start_date) /\ Truthy(args.end_date) /\ ~BothDatesParse) =>
          budget = Some(250)

\* C13 as amended: with max_rows absent and a 'date' column whose values fail
\* to parse, the budget is 250 whether or not start_date and end_date are
\* supplied and parse (the date-range rule is not tried); a start_date or
\* end_date that fails to parse gives 250 as well; nothing is raised.
C13_FallsToDefault ==
    /\ UnparsedDateColumn =>
          /\ budget = Some(250)
          /\ result.kind = "return"
          /\ args.renderable =>
                (RenderedTable /\ Len(TableOut.rows) = MinOf(NRows, 250))
    /\ (Done /\ NonEmptyInput /\ ~args.max_rows.given /\ args.df.date_kind = "other"
            /\ Truthy(args.start_date) /\ Truthy(args.end_date) /\ ~BothDatesParse) =>
          budget = Some(250)

C13_Witness ==
    /\ UnparsedDateColumn /\ BothDatesParse /\ ArgRangeBudget = 50
    /\ NRows = 51
    /\ budget = Some(250)
    /\ RenderedTable /\ Len(TableOut.rows) = 51 /\ ~HasRowNote

\* ------------------------------------------------------------------- C14
\* C14: when rendering the table fails, the call returns exactly
\* "Error: Could not format data into Markdown table.", with no truncation
\* note before it even if rows or columns were truncated, and raises nothing.
RenderFails == Done /\ NonEmptyInput /\ RowCapKnown /\ ~args.renderable

C14_RenderFailureSentinel ==
    RenderFails =>
        /\ result.kind = "return"
        /\ result.text = <<Lit("Error: Could not format data into Markdown table.")>>
        /\ ~StartsWithNote /\ ~HasRowNote /\ ~HasColNote

C14_Witness ==
    /\ RenderFails /\ RowsWereTruncated /\ ColsWereTruncated
    /\ result.text = <<Lit("Error: Could not format data into Markdown table.")>>

\* ------------------------------------------------------------------- C15
\* C15: a call of format_df_to_markdown leaves the caller's dataset as it
\* was, on every path: rows, columns, column order and values after the call
\* are those before it.
C15_DatasetUnchanged == [][pc = "called" => args'.df = args.df]_vars

C15_Witness ==
    /\ Done /\ args.df.date_kind = "str" /\ budget.given
    /\ RowsWereTruncated /\ ColsWereTruncated
    /\ args.df = DataFrame(<<DATE, 1>>, 51, "str", Spread(51, 36))

\* ------------------------------------------------------------------- C16
\* C16: two calls with the same dataset and the same max_rows, max_cols,
\* start_date and end_date return the same outcome, whatever calls with
\* other inputs were made in between.
C16_SameInputsSameOutput ==
    \A i, j \in DOMAIN log : log[i].args = log[j].args => log[i].result = log[j].result

C16_Witness ==
    /\ Len(log) = 3
    /\ log[1].args = log[3].args /\ log[2].args # log[1].args
    /\ ~log[1].args.max_rows.given /\ log[2].args.max_rows.given
    /\ log[1].result.kind = "return" /\ log[3].result = log[1].result
    /\ \E k \in DOMAIN log[1].result.text : log[1].result.text[k] = RowNote(250, 251)

\* ------------------------------------------------------------------- C17
\* C17: invocations that run side by side, each on its own dataset and
\* arguments, return under every interleaving what they return when run
\* alone, and the module attributes MAX_MARKDOWN_ROWS and MAX_MARKDOWN_COLS
\* keep their values.
RunAlone(a) ==
    FormatDfToMarkdown(a.df, a.max_rows, a.max_cols, a.start_date, a.end_date, a.renderable)

C17_InterleavingFree ==
    /\ globals = ModuleGlobals
    /\ \A p \in DOMAIN procs :
          procs[p].pc = "done" => procs[p].result = RunAlone(procs[p].args)

C17_Witness ==
    /\ DOMAIN procs = {1, 2}
    /\ procs[1].pc = "done" /\ procs[2].pc = "truncate"
    /\ procs[1].args # procs[2].args
    /\ ~procs[1].args.max_rows.given /\ procs[2].args.max_rows.given
    /\ \E k \in DOMAIN procs[1].result.text : procs[1].result.text[k] = RowNote(250, 251)

\* ------------------------------------------------- the endpoint's claims
Answered(r) == reqs[r].pc = "done"

ObjectBody(r) == reqs[r].body.json = "object"

\* the id the request carries: null when it carries none
IdOfRequest(r) ==
    IF reqs[r].body.id.t \in {"absent", "null"} THEN PyNone ELSE reqs[r].body.id

MethodIs(r, m) == ObjectBody(r) /\ reqs[r].body.method = JStr(m)

UnknownMethod(r) == ObjectBody(r) /\ \A m \in KnownMethods : reqs[r].body.method # JStr(m)

InvokedBy(r) == {k \in DOMAIN invoked : invoked[k].req = r}

\* ------------------------------------------------------------------- C18
\* C18: a request whose body is a JSON object with a method that is none of
\* initialize, notifications/initialized, tools/list, tools/call (a missing
\* method included) is answered with an error object of code -32601 and
\* message "Method not found: {method}", carrying the request's id, and no
\* tool is invoked for it.
C18_MethodNotFound ==
    \A r \in DOMAIN reqs :
        UnknownMethod(r) =>
            /\ InvokedBy(r) = {}
            /\ reqs[r].pc \in {"reading", "done"}
            /\ Answered(r) =>
                  LET m == reqs[r].body.method
                      resp == reqs[r].response
                  IN  /\ resp.kind = "error" /\ resp.code = -32601
                      /\ resp.jsonrpc = "2.0"
                      /\ resp.id = IdOfRequest(r)
                      /\ resp.message =
                            <<"Method not found: ",
                              IF m.t \in {"absent", "null"} THEN "None" ELSE m.v>>

C18_Witness ==
    /\ DOMAIN reqs = ReqIds
    /\ Answered(1) /\ reqs[1].body.method = Absent /\ reqs[1].body.id = JNum("1")
    /\ reqs[1].response.code = -32601
    /\ reqs[1].response.message = <<"Method not found: ", "None">>
    /\ Answered(2) /\ reqs[2].body.method = JStr("tools/foo")
    /\ reqs[2].response.message = <<"Method not found: ", "tools/foo">>

\* ------------------------------------------------------------------- C19
\* C19: when the tool invocation of a tools/call request raises (as it does
\* for a name that is not registered), and when the enumeration of a
\* tools/list request raises, the answer is an error object of code -32603
\* carrying the request's id; the exception does not leave the handler.
C19_InternalError ==
    \A r \in DOMAIN reqs :
        /\ reqs[r].outcome = "raised" =>
              /\ MethodIs(r, "tools/call") \/ MethodIs(r, "tools/list")
              /\ Answered(r)
              /\ reqs[r].response.status = 200
              /\ reqs[r].response.kind = "error"
              /\ reqs[r].response.code = -32603
              /\ reqs[r].response.id = IdOfRequest(r)
              /\ reqs[r].response.message[1] =
                    (IF MethodIs(r, "tools/call") THEN "Tool execution failed: "
                     ELSE "Failed to get tools list: ")
        /\ (InvokedBy(r) # {} /\ reqs[r].body.name = JStr("no_such_tool")) =>
              reqs[r].outcome = "raised"

C19_Witness ==
    /\ DOMAIN reqs = ReqIds
    /\ MethodIs(1, "tools/call") /\ reqs[1].body.name = JStr("no_such_tool")
    /\ reqs[1].body.id = JStr("a")
    /\ InvokedBy(1) # {} /\ reqs[1].response.code = -32603
    /\ reqs[1].response.id = JStr("a")
    /\ MethodIs(2, "tools/list") /\ reqs[2].outcome = "raised"
    /\ reqs[2].response.code = -32603

\* ------------------------------------------------------------------- C20
\* C20: a request whose body is not JSON is answered with HTTP status 400
\* and an error object of code -32700, id null and a message that starts
\* "Parse error: "; the handler ends with that answer, not with an
\* exception.
C20_ParseError ==
    \A r \in DOMAIN reqs :
        reqs[r].body.json = "malformed" =>
            /\ reqs[r].pc \in {"reading", "done"}
            /\ InvokedBy(r) = {}
            /\ Answered(r) =>
                  /\ reqs[r].response.status = 400
                  /\ reqs[r].response.kind = "error"
                  /\ reqs[r].response.code = -32700
                  /\ reqs[r].response.id = PyNone
                  /\ reqs[r].response.message[1] = "Parse error: "

C20_Witness ==
    /\ DOMAIN reqs = ReqIds
    /\ reqs[1].body.json = "malformed" /\ Answered(1)
    /\ reqs[1].response.status = 400 /\ reqs[1].response.code = -32700
    /\ reqs[2].body.json = "object" /\ Answered(2) /\ reqs[2].response.status = 200

\* ------------------------------------------------------------------- C21
\* C21: for every request whose body is a JSON object, whatever its method,
\* the response body is an envelope with jsonrpc "2.0", the request's id, and
\* exactly one of the members result and error.
C21_Envelope ==
    \A r \in DOMAIN reqs :
        (ObjectBody(r) /\ Answered(r)) =>
            /\ reqs[r].response.jsonrpc = "2.0"
            /\ reqs[r].response.id = IdOfRequest(r)
            /\ reqs[r].response.kind \in {"result", "error"}

\* ------------------------------------------------------------------- C28
\* C28: a tools/call request whose params member is present and not a
\* mapping, and a request whose body is JSON but not an object, is answered
\* with HTTP 400, code -32700 and id null, and not with -32603 or -32601 and
\* the request's id; a tools/call request without params reaches the tool
\* layer with name None and empty arguments.
ParamsNotMapping(r) ==
    MethodIs(r, "tools/call") /\ reqs[r].body.params.t \notin {"absent", "object"}

C28_MalformedParams ==
    \A r \in DOMAIN reqs :
        /\ (Answered(r) /\ (ParamsNotMapping(r) \/ reqs[r].body.json \in {"array", "null"})) =>
              /\ reqs[r].response.status = 400
              /\ reqs[r].response.kind = "error"
              /\ reqs[r].response.code = -32700
              /\ reqs[r].response.id = PyNone
              /\ InvokedBy(r) = {}
        /\ (Answered(r) /\ MethodIs(r, "tools/call") /\ reqs[r].body.params = Absent) =>
              /\ Cardinality(InvokedBy(r)) = 1
              /\ \A k \in InvokedBy(r) :
                    invoked[k].name = PyNone /\ invoked[k].arguments = JObj

C28_Witness ==
    /\ DOMAIN reqs = ReqIds
    /\ Answered(1) /\ MethodIs(1, "tools/call") /\ reqs[1].body.params = JNull
    /\ reqs[1].body.id = JNum("1")
    /\ reqs[1].response.status = 400 /\ reqs[1].response.id = PyNone
    /\ Answered(2) /\ MethodIs(2, "tools/call") /\ reqs[2].body.params = Absent
    /\ InvokedBy(2) # {} /\ reqs[2].response.code = -32603

\* ------------------------------------------------------------------- C29
\* C29: when several requests are handled at once and their handlers
\* interleave at the awaits, every response carries the id of the request it
\* answers and the result or error of that request's own tool invocation.
C29_OwnAnswer ==
    \A r \in DOMAIN reqs :
        /\ Cardinality(InvokedBy(r)) <= 1
        /\ \A k \in InvokedBy(r) :
              invoked[k].name =
                 (IF reqs[r].body.params.t = "object" /\ reqs[r].body.name.t = "str"
                  THEN reqs[r].body.name ELSE PyNone)
        /\ Answered(r) =>
              LET resp == reqs[r].response
              IN  /\ resp.kind \in {"result", "error"} =>
                        resp.id = (IF resp.status = 200 THEN IdOfRequest(r) ELSE PyNone)
                  /\ reqs[r].outcome # "none" => InvokedBy(r) # {} \/ MethodIs(r, "tools/list")
                  /\ (MethodIs(r, "tools/call") /\ reqs[r].outcome = "returned") =>
                        resp.result = <<"content", "text", reqs[r].body.name.v>>

C29_Witness ==
    /\ DOMAIN reqs = ReqIds
    /\ Len(invoked) = 2 /\ invoked[1].req = 2 /\ invoked[2].req = 1
    /\ Answered(1) /\ Answered(2)
    /\ reqs[1].body.id = JNum("1") /\ reqs[2].body.id = JStr("a")
    /\ reqs[1].response.id = JNum("1") /\ reqs[2].response.id = JStr("a")
    /\ reqs[1].response.result = <<"content", "text", "get_hs300_stocks">>
    /\ reqs[2].response.result = <<"content", "text", "get_zz500_stocks">>

\* ------------------------------------------------------------------- C26
\* C26: the dispatcher keeps nothing between requests: requests with the same
\* body whose tool layer behaves the same are answered the same wherever
\* they stand in the sequence, tools/list and tools/call are answered without
\* an initialize before them, initialize gives the same result each time, and
\* the sessions store stays empty.
InitializeServed(k) == served[k].body.method = JStr("initialize")

C26_NoStateBetweenRequests ==
    /\ sessions = <<>>
    /\ \A i, j \in DOMAIN served :
          (served[i].body = served[j].body /\ served[i].outcome = served[j].outcome)
             => served[i].response = served[j].response
    /\ \A i \in DOMAIN served :
          /\ InitializeServed(i) =>
                /\ served[i].response.kind = "result"
                /\ served[i].response.result[2] = "2024-11-05"
          /\ (served[i].body.method = JStr("tools/list") /\ served[i].outcome = "returned") =>
                served[i].response.result = <<"tools", "get_hs300_stocks", "get_zz500_stocks">>
          /\ (served[i].body.method = JStr("tools/call") /\ served[i].outcome = "returned") =>
                served[i].response.result = <<"content", "text", served[i].body.name.v>>

C26_Witness ==
    /\ Len(served) = 3
    /\ served[1].body.method = JStr("tools/list") /\ served[1].outcome = "returned"
    /\ InitializeServed(2)
    /\ served[3] = served[1]
    /\ sessions = <<>>

\* ------------------------------------------------------------------- C25
\* C25: whenever columns are truncated on a dataset with distinct column
\* names, the count in the column note equals max_cols and equals the number
\* of columns of the rendered table; 8 rows and 25 columns under max_rows=50
\* and max_cols=20 give no row note and the note "columns truncated to 20
\* (from 25)".
C25_ColumnNoteCount ==
    /\ (RenderedTable /\ NonEmptyInput /\ NCols > ColCap /\ DistinctLabels) =>
          /\ HasNote(ColNote(ColCap, NCols))
          /\ Len(TableOut.cols) = ColCap
          /\ \A i \in DOMAIN result.text :
                IsColNote(result.text[i]) => result.text[i] = ColNote(ColCap, NCols)
    /\ (Done /\ NRows = 8 /\ NCols = 25 /\ args.max_rows = Some(50)
             /\ args.max_cols = Some(20)) =>
          /\ result.kind = "return"
          /\ ~HasRowNote
          /\ result.text = <<NotePrefix, ColNote(20, 25), NoteSuffix,
                             Table(HeadAndTail(25, 10, 10), Iota(8))>>

C25_Witness ==
    /\ RenderedTable /\ NRows = 8 /\ NCols = 25
    /\ args.max_rows = Some(50) /\ args.max_cols = Some(20)
    /\ HasNote(ColNote(20, 25)) /\ Len(TableOut.cols) = 20

\* ------------------------------------------------- the tool layer's claims
ToolReturned == tool.pc \in {"done", "answered"}

YearBad == ~(Len(tool.a.year) = 4 /\ \A i \in 1..Len(tool.a.year) : tool.a.year[i] \in Digits)

QuarterBad == tool.a.quarter \notin 1..4

FrequencyBad == tool.a.frequency \notin {"d", "w", "m", "5", "15", "30", "60"}

AdjustFlagBad == tool.a.adjust_flag \notin {"1", "2", "3"}

\* the tool checks its arguments and some argument is outside what it allows
ArgsInvalid ==
    \/ tool.name = "get_profit_data" /\ (YearBad \/ QuarterBad)
    \/ tool.name = "get_historical_k_data" /\ (FrequencyBad \/ AdjustFlagBad)
    \/ tool.name = "get_dividend_data"
          /\ (tool.a.year_type \notin {"report", "operate"} \/ YearBad)
    \/ tool.name = "get_required_reserve_ratio_data" /\ tool.a.year_type \notin {"0", "1"}

IsInvalidText(text) ==
    /\ Len(text) >= 3
    /\ text[1] = Lit("Error: ")
    /\ text[2] \in {Lit("Invalid year '"), Lit("Invalid quarter '"),
                    Lit("Invalid frequency '"), Lit("Invalid adjust_flag '"),
                    Lit("Invalid year_type '")}

Mentions(text, tok) == \E i \in DOMAIN text : text[i] = tok

ProviderReturned == tool.provider_calls > 0 /\ ~tool.provided.raises

\* ------------------------------------------------------------------- C22
\* C22: a tool that checks arguments checks them before it calls the data
\* provider: with a year that is not 4 digits, a quarter outside 1..4, a
\* frequency outside d, w, m, 5, 15, 30, 60, an adjust_flag outside 1, 2, 3 or
\* a year_type outside its set, it returns an "Error: Invalid ..." text and
\* the provider is never called; with valid arguments the provider is called
\* exactly once.
C22_ValidationBeforeProvider ==
    /\ ArgsInvalid =>
          /\ tool.provider_calls = 0
          /\ tool.pc \in {"called", "done", "answered"}
          /\ ToolReturned => (tool.result.kind = "return" /\ IsInvalidText(tool.result.text))
    /\ ~ArgsInvalid =>
          /\ tool.pc \in {"called", "provider"} => tool.provider_calls = 0
          /\ tool.pc \in {"format", "done", "answered"} => tool.provider_calls = 1

C22_Witness ==
    /\ tool.pc = "answered" /\ tool.name = "get_historical_k_data"
    /\ tool.a.frequency = "d" /\ tool.a.adjust_flag = "0"
    /\ tool.provider_calls = 0
    /\ tool.result.text[2] = Lit("Invalid adjust_flag '")

\* ------------------------------------------------------------------- C23
\* C23: with valid arguments and a dataset from the provider, a tool that
\* calls the formatter without max_rows returns, for every non-empty dataset
\* whatever its column names (also with no column named 'date'), the rendered
\* table, with the truncation note before it when there is one, and not an
\* "Error:" text.
ToolsWithoutMaxRows ==
    {"get_deposit_rate_data", "get_required_reserve_ratio_data", "get_hs300_stocks",
     "get_all_stock", "get_trade_dates", "get_dividend_data"}

C23_ToolReturnsTable ==
    (/\ ToolReturned /\ tool.name \in ToolsWithoutMaxRows /\ ~ArgsInvalid
     /\ ProviderReturned /\ ~Empty(tool.provided.df) /\ tool.provided.renderable) =>
        /\ tool.result.kind = "return"
        /\ tool.result.text[1] # Lit("Error: ")
        /\ tool.result.text[Len(tool.result.text)].t = "table"

\* what does hold: those datasets without a 'date' column come back as the
\* text of the caught KeyError
C23_NoDateColumnGivesError ==
    (/\ ToolReturned /\ tool.name \in ToolsWithoutMaxRows /\ ~ArgsInvalid
     /\ ProviderReturned /\ ~Empty(tool.provided.df)
     /\ ~HasDateColumn(tool.provided.df)) =>
        tool.result = Return(<<Lit("Error: "), Lit("An unexpected error occurred: "),
                               Lit("'date'")>>)

\* ------------------------------------------------------------------- C24
\* C24: every tool returns a text for every outcome of the data provider and
\* never raises: when the provider raises NoDataFoundError, LoginError,
\* DataSourceError, ValueError or anything else, the text starts with
\* "Error: ", and the dispatcher answers the tools/call with a result member
\* carrying that text, not with an error object.
C24_ToolsNeverRaise ==
    /\ ToolReturned => (tool.result.kind = "return" /\ Len(tool.result.text) > 0)
    /\ (ToolReturned /\ tool.provided.raises) => tool.result.text[1] = Lit("Error: ")
    /\ tool.pc = "answered" =>
          (tool.answer.kind = "result" /\ tool.answer.text = tool.result.text)

C24_Witness ==
    /\ tool.pc = "answered" /\ tool.name = "get_profit_data"
    /\ tool.provided.raises /\ tool.provided.exc.class = "RuntimeError"
    /\ tool.result.text = <<Lit("Error: "), Lit("An unexpected error occurred: "), Lit("boom")>>
    /\ tool.answer.kind = "result"

\* ------------------------------------------------------------------- C27
\* C27: with max_rows given, the dynamic row budget is not computed: the
\* output is the same whatever the date column's presence, type and values
\* and whatever start_date and end_date; so the financial-report tools
\* (max_rows=20, max_cols=10) and get_stock_basic_info (max_rows=10,
\* max_cols=10) never return more than that many data rows and columns.
Undated(df) ==
    [df EXCEPT !.date_kind = IF HasDateColumn(df) THEN "other" ELSE "none",
               !.date_vals = <<>>]

ToolRowCap == IF tool.name = "get_stock_basic_info" THEN 10 ELSE 20

ToolsWithMaxRows == {"get_profit_data", "get_stock_basic_info"}

\* the formatter's part of C27, over every call of Spec
C27_ExplicitRowsIgnoreDates ==
    (Done /\ args.max_rows.given) =>
        /\ budget = None
        /\ result = FormatDfToMarkdown(Undated(args.df), args.max_rows, args.max_cols,
                                       NoDate, NoDate, args.renderable)

C27_ExplicitCapsBoundTools ==
    (/\ ToolReturned /\ tool.name \in ToolsWithMaxRows /\ ~ArgsInvalid
     /\ ProviderReturned) =>
        /\ tool.result = FormatDfToMarkdown(Undated(tool.provided.df), Some(ToolRowCap),
                                            Some(10), NoDate, NoDate,
                                            tool.provided.renderable)
        /\ \A i \in DOMAIN tool.result.text :
              tool.result.text[i].t = "table" =>
                 /\ Len(tool.result.text[i].rows) <= ToolRowCap
                 /\ Len(tool.result.text[i].cols) <= 10

\* ------------------------------------------------------------------- C30
\* C30: a tool given more than one invalid argument reports the first failing
\* check only: call_financial_data_tool year before quarter,
\* get_historical_k_data frequency before adjust_flag, get_dividend_data
\* year_type before year; the text names that argument and not the other.
C30_FirstFailingCheck ==
    ToolReturned =>
        /\ (tool.name = "get_profit_data" /\ YearBad /\ QuarterBad) =>
              /\ tool.result.text[2] = Lit("Invalid year '")
              /\ ~Mentions(tool.result.text, Lit("Invalid quarter '"))
        /\ (tool.name = "get_historical_k_data" /\ FrequencyBad /\ AdjustFlagBad) =>
              /\ tool.result.text[2] = Lit("Invalid frequency '")
              /\ ~Mentions(tool.result.text, Lit("Invalid adjust_flag '"))
        /\ (tool.name = "get_dividend_data" /\ YearBad
               /\ tool.a.year_type \notin {"report", "operate"}) =>
              /\ tool.result.text[2] = Lit("Invalid year_type '")
              /\ ~Mentions(tool.result.text, Lit("Invalid year '"))

C30_Witness ==
    /\ ToolReturned /\ tool.name = "get_profit_data"
    /\ tool.a.year = <<"2", "3">> /\ tool.a.quarter = 5
    /\ tool.provider_calls = 0
    /\ tool.result.text = InvalidYear(<<"2", "3">>)

====
